---- MODULE Spec2Model ----
(***************************************************************************)
(* rpi-sysmon: the sampler (sysmon.c) and the latest-record extractor of   *)
(* the dashboard server (monitor_server.c).                                *)
(*                                                                         *)
(* Text is a sequence of one-character strings; a C pointer into a buffer  *)
(* is a 1-based index, NULL is 0, and the terminating NUL sits one past    *)
(* the end of the sequence.  A double is the exact rational n/d it holds   *)
(* ([n |-> Int, d |-> Nat]); d = 0 stands for the result of a division by  *)
(* zero.  uint64_t arithmetic is arithmetic modulo 2^WordBits.             *)
(***************************************************************************)
EXTENDS Integers, Sequences, FiniteSets, TLC

VARIABLES
    log_exists,     \* whether monitor.log can be opened
    log,            \* monitor.log: the bytes visible to a reader
    pending,        \* bytes of the record being appended, not yet visible
    rd_pc,          \* handle_client: "idle" | "done"
    ret,            \* handle_client: int ret
    data,           \* handle_client: SystemData data
    last_line,      \* get_latest_data: char *last_line (index into buffer)
    file_size,      \* get_latest_data: off_t file_size
    response,       \* handle_client: which response was written
    pc,             \* sysmon main: "start" | "sleep" | "run" | "exit"
    prev_cpu_snap,  \* sysmon main: CpuSnapshot prev_cpu_snap
    curr_cpu_snap,  \* sysmon main: CpuSnapshot curr_cpu_snap
    current_state,  \* sysmon main: SystemState current_state
    cpu_rc,         \* sysmon main: result of the tick's get_cpu_snapshot
    out_line,       \* the bytes this loop iteration wrote to stdout
    kidx,           \* the kernel's position in its counter history
    proc_stat,      \* /proc/stat as the sampler's next read finds it
    proc_meminfo,   \* /proc/meminfo
    thermal,        \* /sys/class/thermal/thermal_zone0/temp
    proc_uptime,    \* /proc/uptime
    last_good,      \* history: the snapshot of the last successful read
    usage           \* result of a calculate_cpu_usage call

vars == <<log_exists, log, pending, rd_pc, ret, data, last_line, file_size,
          response, pc,
          prev_cpu_snap, curr_cpu_snap, current_state, cpu_rc, out_line,
          kidx, proc_stat, proc_meminfo, thermal, proc_uptime, last_good,
          usage>>

readerVars == <<rd_pc, ret, data, last_line, file_size, response>>
samplerVars == <<pc, prev_cpu_snap, curr_cpu_snap, current_state, cpu_rc,
                 out_line, last_good>>
kernelVars == <<kidx, proc_stat, proc_meminfo, thermal, proc_uptime>>

(***************************************************************************)
(* Bounds of the model                                                     *)
(***************************************************************************)
MaxFrags == 3
WordBits == 4
MaxCount == 2
MaxOld == 6
MaxNew == 2
MaxTicks == 2

(***************************************************************************)
(* Program constants                                                       *)
(***************************************************************************)
READ_CHUNK_SIZE == 1024

None == "none"

(***************************************************************************)
(* Doubles and longs                                                       *)
(***************************************************************************)
Dbl(n, d) == [n |-> n, d |-> d]
Zero == Dbl(0, 1)
MinusOne == Dbl(-1, 1)
\* no call of calculate_cpu_usage has returned yet
NotComputed == Dbl(0, -1)

Abs(x) == IF x < 0 THEN -x ELSE x

RECURSIVE Pow10(_)
Pow10(k) == IF k = 0 THEN 1 ELSE 10 * Pow10(k - 1)

RECURSIVE Pow2(_)
Pow2(k) == IF k = 0 THEN 1 ELSE 2 * Pow2(k - 1)

\* (long)x : conversion truncates toward zero
ToLong(x) == IF x.n >= 0 THEN x.n \div x.d ELSE -((-x.n) \div x.d)

\* uint64_t wrap-around
Modulus == Pow2(WordBits)
U64(x) == x % Modulus

(***************************************************************************)
(* C strings                                                               *)
(***************************************************************************)
NUL == "NUL"
DIGITS == <<"0", "1", "2", "3", "4", "5", "6", "7", "8", "9">>
Space == {" ", "\n", "\t"}

CharAt(buf, i) == IF i >= 1 /\ i <= Len(buf) THEN buf[i] ELSE NUL
IsDigit(c) == \E i \in 1..10 : DIGITS[i] = c
DigitVal(c) == (CHOOSE i \in 1..10 : DIGITS[i] = c) - 1

Min(S) == CHOOSE i \in S : \A j \in S : i <= j
Max(S) == CHOOSE i \in S : \A j \in S : i >= j

\* strchr(buf + from - 1, c): the first index >= from that holds c, or NULL.
\* The search goes 64 bytes at a time, which bounds the depth of recursion.
RECURSIVE strchr(_, _, _)
strchr(buf, from, c) ==
    IF from > Len(buf) THEN 0
    ELSE LET hi == IF from + 63 < Len(buf) THEN from + 63 ELSE Len(buf)
             hits == {i \in from..hi : buf[i] = c}
         IN  IF hits = {} THEN strchr(buf, hi + 1, c) ELSE Min(hits)

MatchAt(buf, i, pat) ==
    /\ i + Len(pat) - 1 <= Len(buf)
    /\ \A k \in 1..Len(pat) : buf[i + k - 1] = pat[k]

\* strstr(buf + from - 1, pat): the first index >= from where pat occurs, or
\* NULL; searched 64 positions at a time
RECURSIVE strstr(_, _, _)
strstr(buf, from, pat) ==
    LET last == Len(buf) - Len(pat) + 1
    IN  IF from > last THEN 0
        ELSE LET hi == IF from + 63 < last THEN from + 63 ELSE last
                 hits == {i \in from..hi : MatchAt(buf, i, pat)}
             IN  IF hits = {} THEN strstr(buf, hi + 1, pat) ELSE Min(hits)

RECURSIVE SkipSpace(_, _)
SkipSpace(buf, pos) ==
    IF CharAt(buf, pos) \in Space THEN SkipSpace(buf, pos + 1) ELSE pos

\* the run of decimal digits at pos: its value, its length, the index after it
RECURSIVE ScanDigits(_, _, _, _)
ScanDigits(buf, pos, acc, cnt) ==
    IF IsDigit(CharAt(buf, pos))
    THEN ScanDigits(buf, pos + 1, acc * 10 + DigitVal(buf[pos]), cnt + 1)
    ELSE [val |-> acc, cnt |-> cnt, pos |-> pos]

\* strtod(buf + pos - 1, NULL) on decimal input: white space, an optional
\* sign, digits, an optional point and digits; 0.0 when no number is there.
strtod(buf, pos) ==
    LET p0 == SkipSpace(buf, pos)
        neg == CharAt(buf, p0) = "-"
        p1 == IF CharAt(buf, p0) \in {"-", "+"} THEN p0 + 1 ELSE p0
        ip == ScanDigits(buf, p1, 0, 0)
        fp == IF CharAt(buf, ip.pos) = "."
              THEN ScanDigits(buf, ip.pos + 1, 0, 0)
              ELSE [val |-> 0, cnt |-> 0, pos |-> ip.pos]
        mag == ip.val * Pow10(fp.cnt) + fp.val
    IN  IF ip.cnt + fp.cnt = 0 THEN Zero
        ELSE Dbl(IF neg THEN -mag ELSE mag, Pow10(fp.cnt))

(***************************************************************************)
(* monitor_server.c                                                        *)
(***************************************************************************)
PREFIX == <<"{", "\"", "t", "i", "m", "e", "s", "t", "a", "m", "p", "\"">>
K_uptime_sec == <<"u", "p", "t", "i", "m", "e", "_", "s", "e", "c">>
K_temp_c == <<"t", "e", "m", "p", "_", "c">>
K_usage_pct == <<"u", "s", "a", "g", "e", "_", "p", "c", "t">>
K_total_kb == <<"t", "o", "t", "a", "l", "_", "k", "b">>
K_free_kb == <<"f", "r", "e", "e", "_", "k", "b">>
K_used_pct == <<"u", "s", "e", "d", "_", "p", "c", "t">>

\* snprintf(search_key, ..., "\"%s\":", key)
search_key(key) == <<"\"">> \o key \o <<"\"", ":">>

\* the same parsing at the key instead of after it
extract_json_value_AtKey(json, from, key) ==
    LET pos == strstr(json, from, search_key(key))
    IN  IF pos # 0 THEN strtod(json, pos) ELSE Zero

\* extract_json_value(json + from - 1, key)
extract_json_value(json, from, key) ==
    LET pos == strstr(json, from, search_key(key))
    IN  IF pos # 0 THEN strtod(json, pos + Len(search_key(key))) ELSE Zero

\* the while loop over the newline-terminated lines of the chunk
RECURSIVE ScanLines(_, _, _)
ScanLines(buffer, curr, last) ==
    LET next_line == strchr(buffer, curr, "\n")
    IN  IF next_line = 0 THEN [curr |-> curr, last_line |-> last]
        ELSE ScanLines(buffer, next_line + 1,
                       IF next_line > curr /\ strstr(buffer, curr, PREFIX) # 0
                       THEN curr ELSE last)

\* the same without the check: only newline-terminated lines are candidates
TrailerLine_CompleteLinesOnly(buffer, curr, last) == last

\* the check of the bytes after the last newline
TrailerLine(buffer, curr, last) ==
    IF CharAt(buffer, curr) # NUL /\ strstr(buffer, curr, PREFIX) # 0
    THEN curr ELSE last

FindLastLine(buffer) ==
    LET s == ScanLines(buffer, 1, 0)
    IN  TrailerLine(buffer, s.curr, s.last_line)

ZeroData ==
    [uptime |-> Zero, cpu_temp |-> Zero, cpu_usage |-> Zero,
     mem_total |-> 0, mem_free |-> 0, mem_used_pct |-> Zero]

ParseLine(buffer, ll) ==
    [uptime |-> extract_json_value(buffer, ll, K_uptime_sec),
     cpu_temp |-> extract_json_value(buffer, ll, K_temp_c),
     cpu_usage |-> extract_json_value(buffer, ll, K_usage_pct),
     mem_total |-> ToLong(extract_json_value(buffer, ll, K_total_kb)),
     mem_free |-> ToLong(extract_json_value(buffer, ll, K_free_kb)),
     mem_used_pct |-> extract_json_value(buffer, ll, K_used_pct)]

\* the same reading from the start of the file
SeekPos_FromStart(size) == 0

SeekPos(size) == IF size > READ_CHUNK_SIZE THEN size - READ_CHUNK_SIZE ELSE 0

\* the bytes read(fd, buffer, READ_CHUNK_SIZE) returns after the seek
Chunk(file, size) ==
    LET seek_pos == SeekPos(size)
        last == IF seek_pos + READ_CHUNK_SIZE < Len(file)
                THEN seek_pos + READ_CHUNK_SIZE ELSE Len(file)
    IN  SubSeq(file, seek_pos + 1, last)

\* get_latest_data(&d) on the file: the return value, the struct afterwards
\* and the local last_line
get_latest_data(exists, file, d) ==
    IF ~exists \/ Len(file) = 0
    THEN [ret |-> -1, data |-> d, last_line |-> 0]
    ELSE LET buffer == Chunk(file, Len(file))
             ll == FindLastLine(buffer)
         IN  IF ll = 0
             THEN [ret |-> -1, data |-> d, last_line |-> 0]
             ELSE [ret |-> 0, data |-> ParseLine(buffer, ll), last_line |-> ll]

\* handle_client: data = {0}, the call of get_latest_data, and the response
\* chosen from its result (the page's markup is not modelled)
HandleClient ==
    /\ rd_pc = "idle"
    /\ LET r == get_latest_data(log_exists, log, ZeroData)
       IN  /\ ret' = r.ret
           /\ data' = r.data
           /\ last_line' = r.last_line
           /\ response' = IF r.ret < 0 THEN "nodata" ELSE "dashboard"
    /\ file_size' = IF log_exists THEN Len(log) ELSE 0
    /\ rd_pc' = "done"
    /\ UNCHANGED <<log_exists, log, pending, samplerVars, kernelVars, usage>>

\* handle_client returns: its locals are gone, the server accepts again
ClientDone ==
    /\ rd_pc = "done"
    /\ rd_pc' = "idle"
    /\ ret' = None
    /\ data' = ZeroData
    /\ last_line' = 0
    /\ file_size' = 0
    /\ response' = None
    /\ UNCHANGED <<log_exists, log, pending, samplerVars, kernelVars, usage>>

ReaderInit ==
    /\ rd_pc = "idle"
    /\ ret = None
    /\ data = ZeroData
    /\ last_line = 0
    /\ file_size = 0
    /\ response = None

(***************************************************************************)
(* The extractor on arbitrary log contents: every concatenation of at      *)
(* most MaxFrags of these fragments.                                       *)
(***************************************************************************)
F_ts ==
    <<"{", "\"", "t", "i", "m", "e", "s", "t", "a", "m", "p", "\"", ":",
      "1", ".", "5", ",">>
F_up ==
    <<"\"", "u", "p", "t", "i", "m", "e", "_", "s", "e", "c", "\"", ":",
      "5", ".", "2", "5", ",", "\"", "c", "p", "u", "\"", ":", "{", "\"",
      "t", "e", "m", "p", "_", "c", "\"", ":", "-", "1", ".", "0", "0",
      ",">>
F_us ==
    <<"\"", "u", "s", "a", "g", "e", "_", "p", "c", "t", "\"", ":", "6",
      "6", ".", "7", "}", ",">>
F_mem ==
    <<"\"", "t", "o", "t", "a", "l", "_", "k", "b", "\"", ":", "7", ",",
      "\"", "f", "r", "e", "e", "_", "k", "b", "\"", ":", "3", ",">>
F_pct ==
    <<"\"", "u", "s", "e", "d", "_", "p", "c", "t", "\"", ":", "6", "0",
      ".", "0", "}", "}">>
F_nl ==
    <<"\n">>
F_x ==
    <<"x">>
F_part ==
    <<"{", "\"", "t", "i", "m", "e">>

Frags == {F_ts, F_up, F_us, F_mem, F_pct, F_nl, F_x, F_part}

RECURSIVE Concats(_)
Concats(k) ==
    IF k = 0 THEN {<<>>}
    ELSE LET s == Concats(k - 1)
         IN  s \cup {w \o f : w \in s, f \in Frags}

ZeroSnap ==
    [user |-> 0, nice |-> 0, system |-> 0, idle |-> 0, iowait |-> 0,
     irq |-> 0, softirq |-> 0, steal |-> 0]

ZeroState ==
    [temp_c |-> Zero, cpu_usage_percent |-> Zero, mem_total_kb |-> 0,
     mem_available_kb |-> 0, mem_free_kb |-> 0, uptime_sec |-> Zero]

NoFile == [open |-> FALSE, text |-> <<>>]

KernelIdle ==
    /\ kidx = 0
    /\ proc_stat = NoFile
    /\ proc_meminfo = NoFile
    /\ thermal = NoFile
    /\ proc_uptime = NoFile

SamplerIdle ==
    /\ pc = "exit"
    /\ prev_cpu_snap = ZeroSnap
    /\ curr_cpu_snap = ZeroSnap
    /\ current_state = ZeroState
    /\ cpu_rc = 0
    /\ out_line = <<>>
    /\ last_good = ZeroSnap
    /\ pending = <<>>
    /\ usage = NotComputed
    /\ KernelIdle

InitExtract ==
    /\ log_exists \in BOOLEAN
    /\ log \in IF log_exists THEN Concats(MaxFrags) ELSE {<<>>}
    /\ ReaderInit
    /\ SamplerIdle

NextExtract == HandleClient \/ ClientDone

SpecExtract == InitExtract /\ [][NextExtract]_vars

(***************************************************************************)
(* What the claims say about a window, stated on its lines                 *)
(***************************************************************************)
\* the bytes the last call of get_latest_data was handed
Window == Chunk(log, file_size)

Occurs(w, pat, i) ==
    /\ i >= 1
    /\ i + Len(pat) - 1 <= Len(w)
    /\ SubSeq(w, i, i + Len(pat) - 1) = pat

\* i is the first byte of a line of w
LineStart(w, i) == i \in 1..Len(w) /\ (i = 1 \/ w[i - 1] = "\n")

\* the index one past the last byte of the line that holds byte i
LineEnd(w, i) ==
    IF \E j \in i..Len(w) : w[j] = "\n"
    THEN CHOOSE j \in i..Len(w) : w[j] = "\n" /\ \A k \in i..(j - 1) : w[k] # "\n"
    ELSE Len(w) + 1

\* the lines of w that begin with the record prefix
QualLines(w) == {i \in 1..Len(w) : LineStart(w, i) /\ Occurs(w, PREFIX, i)}

PrefixAnywhere(w) == \E i \in 1..Len(w) : Occurs(w, PREFIX, i)

\* the token "<key>": occurs inside the line that starts at ll
KeyInLine(w, ll, key) ==
    \E i \in ll..LineEnd(w, ll) :
        Occurs(w, search_key(key), i) /\ i + Len(search_key(key)) <= LineEnd(w, ll)

KeyAnywhere(w, key) == \E i \in 1..Len(w) : Occurs(w, search_key(key), i)

Keys == {K_uptime_sec, K_temp_c, K_usage_pct, K_total_kb, K_free_kb, K_used_pct}

FieldOf(d, key) ==
    CASE key = K_uptime_sec -> d.uptime
      [] key = K_temp_c -> d.cpu_temp
      [] key = K_usage_pct -> d.cpu_usage
      [] key = K_total_kb -> Dbl(d.mem_total, 1)
      [] key = K_free_kb -> Dbl(d.mem_free, 1)
      [] key = K_used_pct -> d.mem_used_pct

\* C1 (as claimed): the line whose fields are returned begins with the record
\* prefix and is the last line of the window that does; a line that merely
\* contains the prefix further in is never chosen.
C1_ChosenLineBeginsWithPrefix ==
    (rd_pc = "done" /\ ret = 0) =>
        /\ last_line \in QualLines(Window)
        /\ \A j \in QualLines(Window) : j <= last_line

\* C2 (as claimed): a key whose token "<key>": does not occur inside the
\* chosen line is extracted as exactly 0, never from text outside the line.
C2_MissingKeyIsZero ==
    (rd_pc = "done" /\ ret = 0) =>
        \A key \in Keys :
            ~KeyInLine(Window, last_line, key) => FieldOf(data, key).n = 0

RECURSIVE FormatUInt(_)
FormatUInt(n) ==
    IF n < 10 THEN <<DIGITS[n + 1]>>
    ELSE FormatUInt(n \div 10) \o <<DIGITS[(n % 10) + 1]>>

\* %0<w>ld for n >= 0
RECURSIVE ZeroPad(_, _)
ZeroPad(n, w) ==
    IF w = 0 THEN <<>>
    ELSE ZeroPad(n \div 10, w - 1) \o <<DIGITS[(n % 10) + 1]>>

\* x * 10^p lies exactly half way between two integers
IsTie(x, p) == x.d > 0 /\ 2 * ((Abs(x.n) * Pow10(p)) % x.d) = x.d

\* %.<p>f : the decimal with p fraction digits nearest to x.  When x is a
\* decimal tie the double that holds it may lie on either side, and up says
\* which neighbour is printed.
FormatFixed(x, p, up) ==
    IF x.d = 0 THEN <<"n", "a", "n">>
    ELSE LET scaled == Abs(x.n) * Pow10(p)
             q == scaled \div x.d
             r == scaled % x.d
             m == IF 2 * r > x.d \/ (2 * r = x.d /\ up) THEN q + 1 ELSE q
         IN  (IF x.n < 0 THEN <<"-">> ELSE <<>>)
             \o FormatUInt(m \div Pow10(p)) \o <<".">> \o ZeroPad(m % Pow10(p), p)

(***************************************************************************)
(* sysmon.c: calculate_cpu_usage                                           *)
(***************************************************************************)
\* the same with the total leaving out iowait
calculate_cpu_usage_NoIowaitInTotal(prev, curr) ==
    LET prev_idle == U64(prev.idle + prev.iowait)
        curr_idle == U64(curr.idle + curr.iowait)
        prev_non_idle == U64(prev.user + prev.nice + prev.system + prev.irq
                             + prev.softirq + prev.steal)
        curr_non_idle == U64(curr.user + curr.nice + curr.system + curr.irq
                             + curr.softirq + curr.steal)
        prev_total == U64(prev.idle + prev_non_idle)
        curr_total == U64(curr.idle + curr_non_idle)
        total_diff == U64(curr_total - prev_total)
        idle_diff == U64(curr_idle - prev_idle)
    IN  IF total_diff = 0 THEN Zero
        ELSE Dbl(U64(total_diff - idle_diff) * 100, total_diff)

\* the same without the test of total_diff
calculate_cpu_usage_NoZeroTest(prev, curr) ==
    LET prev_idle == U64(prev.idle + prev.iowait)
        curr_idle == U64(curr.idle + curr.iowait)
        prev_non_idle == U64(prev.user + prev.nice + prev.system + prev.irq
                             + prev.softirq + prev.steal)
        curr_non_idle == U64(curr.user + curr.nice + curr.system + curr.irq
                             + curr.softirq + curr.steal)
        prev_total == U64(prev_idle + prev_non_idle)
        curr_total == U64(curr_idle + curr_non_idle)
        total_diff == U64(curr_total - prev_total)
        idle_diff == U64(curr_idle - prev_idle)
    IN  Dbl(U64(total_diff - idle_diff) * 100, total_diff)

calculate_cpu_usage(prev, curr) ==
    LET prev_idle == U64(prev.idle + prev.iowait)
        curr_idle == U64(curr.idle + curr.iowait)
        prev_non_idle == U64(prev.user + prev.nice + prev.system + prev.irq
                             + prev.softirq + prev.steal)
        curr_non_idle == U64(curr.user + curr.nice + curr.system + curr.irq
                             + curr.softirq + curr.steal)
        prev_total == U64(prev_idle + prev_non_idle)
        curr_total == U64(curr_idle + curr_non_idle)
        total_diff == U64(curr_total - prev_total)
        idle_diff == U64(curr_idle - prev_idle)
    IN  IF total_diff = 0 THEN Zero
        ELSE Dbl(U64(total_diff - idle_diff) * 100, total_diff)

(***************************************************************************)
(* calculate_cpu_usage on pairs of snapshots: prev from PrevSnaps, curr    *)
(* with every counter in 0..MaxCount.                                      *)
(***************************************************************************)
Snap(u, n, s, i, w, q, sq, st) ==
    [user |-> u, nice |-> n, system |-> s, idle |-> i, iowait |-> w,
     irq |-> q, softirq |-> sq, steal |-> st]

PrevSnaps ==
    {ZeroSnap, Snap(1, 0, 1, 1, 0, 0, 0, 1), Snap(0, 1, 0, 0, 1, 0, 1, 0),
     Snap(Modulus - 1, 0, 0, 0, 0, 0, 0, 0)}

CurrSnaps ==
    [{"user", "nice", "system", "idle", "iowait", "irq", "softirq", "steal"}
        -> 0..MaxCount]

CalcUsage ==
    /\ usage = NotComputed
    /\ usage' = calculate_cpu_usage(prev_cpu_snap, curr_cpu_snap)
    /\ UNCHANGED <<log_exists, log, pending, readerVars, samplerVars, kernelVars>>

InitCpu ==
    /\ prev_cpu_snap \in PrevSnaps
    /\ curr_cpu_snap \in CurrSnaps
    /\ usage = NotComputed
    /\ pc = "exit"
    /\ current_state = ZeroState
    /\ cpu_rc = 0
    /\ out_line = <<>>
    /\ last_good = ZeroSnap
    /\ KernelIdle
    /\ pending = <<>>
    /\ log_exists = FALSE
    /\ log = <<>>
    /\ ReaderInit

NextCpu == CalcUsage

SpecCpu == InitCpu /\ [][NextCpu]_vars

\* the sums as the integers they are, without wrap-around
IdleSum(s) == s.idle + s.iowait
TotalSum(s) ==
    s.user + s.nice + s.system + s.idle + s.iowait + s.irq + s.softirq + s.steal

CounterNames ==
    {"user", "nice", "system", "idle", "iowait", "irq", "softirq", "steal"}

Monotone(p, c) == \A f \in CounterNames : c[f] >= p[f]

\* C5: when every counter of curr is >= the same counter of prev and the
\* sums do not overflow, calculate_cpu_usage returns a value in [0, 100].
C5_UsageInRange ==
    (/\ usage # NotComputed
     /\ Monotone(prev_cpu_snap, curr_cpu_snap)
     /\ TotalSum(prev_cpu_snap) < Modulus
     /\ TotalSum(curr_cpu_snap) < Modulus) =>
        /\ usage.d > 0
        /\ 0 <= usage.n
        /\ usage.n <= 100 * usage.d

\* a pair with both idle and busy time elapsed: 0 < usage < 100
C5_Witness ==
    /\ usage # NotComputed
    /\ Monotone(prev_cpu_snap, curr_cpu_snap)
    /\ TotalSum(curr_cpu_snap) < Modulus
    /\ prev_cpu_snap # ZeroSnap
    /\ IdleSum(curr_cpu_snap) > IdleSum(prev_cpu_snap)
    /\ usage.n > 0
    /\ usage.n < 100 * usage.d

\* C6: when the totals of the two snapshots are equal, calculate_cpu_usage
\* returns exactly 0.0, the literal and not a quotient, whatever the counters.
C6_EqualTotalsGiveZero ==
    (/\ usage # NotComputed
     /\ U64(TotalSum(prev_cpu_snap)) = U64(TotalSum(curr_cpu_snap))) =>
        usage = Zero

\* equal totals with a different idle + iowait
C6_Witness ==
    /\ usage = Zero
    /\ TotalSum(prev_cpu_snap) = TotalSum(curr_cpu_snap)
    /\ TotalSum(prev_cpu_snap) > 0
    /\ IdleSum(prev_cpu_snap) # IdleSum(curr_cpu_snap)

(***************************************************************************)
(* sysmon.c: the kernel's files and their readers                          *)
(***************************************************************************)
BUFFER_SIZE == 1024
MEMINFO_LINE_SIZE == 128
THERMAL_BUFFER_SIZE == 16

T_cpu ==
    <<"c", "p", "u">>
T_intr ==
    <<"i", "n", "t", "r">>
T_MemTotal ==
    <<"M", "e", "m", "T", "o", "t", "a", "l", ":">>
T_MemFree ==
    <<"M", "e", "m", "F", "r", "e", "e", ":">>
T_MemAvailable ==
    <<"M", "e", "m", "A", "v", "a", "i", "l", "a", "b", "l", "e", ":">>
T_Buffers ==
    <<"B", "u", "f", "f", "e", "r", "s", ":">>
T_kB ==
    <<" ", "k", "B", "\n">>
T_idle_tail ==
    <<" ", "1", "0", ".", "5", "0", "\n">>

File(text) == [open |-> TRUE, text |-> text]

FieldNames ==
    <<"user", "nice", "system", "idle", "iowait", "irq", "softirq", "steal">>

\* fgets(line, size, fp) at offset pos: the index of the last byte it returns
fgetsEnd(text, pos, size) ==
    LET nl == strchr(text, pos, "\n")
        cap == pos + size - 2
        stop == IF nl = 0 THEN Len(text) ELSE nl
    IN  IF stop < cap THEN stop ELSE cap

\* up to n conversions %lu in a row: the values converted before the first
\* one that finds no digits
RECURSIVE ScanULongs(_, _, _, _)
ScanULongs(buf, pos, n, acc) ==
    IF n = 0 THEN acc
    ELSE LET d == ScanDigits(buf, SkipSpace(buf, pos), 0, 0)
         IN  IF d.cnt = 0 THEN acc
             ELSE ScanULongs(buf, d.pos, n - 1, Append(acc, d.val))

\* sscanf(buffer, "cpu  %lu %lu %lu %lu %lu %lu %lu %lu", ...): the values
\* it stores, in order; their number is its return value (EOF counts as 0)
sscanf_cpu(buffer) ==
    IF MatchAt(buffer, 1, T_cpu) THEN ScanULongs(buffer, Len(T_cpu) + 1, 8, <<>>)
    ELSE <<>>

\* the struct after sscanf stored vals into its first fields
StoreFields(snapshot, vals) ==
    [f \in DOMAIN snapshot |->
        LET i == CHOOSE j \in 1..8 : FieldNames[j] = f
        IN  IF i <= Len(vals) THEN vals[i] ELSE snapshot[f]]

\* get_cpu_snapshot(&snapshot): its return value and the struct afterwards
get_cpu_snapshot(snapshot, file) ==
    IF ~file.open THEN [rc |-> -1, snap |-> snapshot]
    ELSE IF file.text = <<>> THEN [rc |-> -1, snap |-> snapshot]
    ELSE LET buffer == SubSeq(file.text, 1, fgetsEnd(file.text, 1, BUFFER_SIZE))
             vals == sscanf_cpu(buffer)
             stored == StoreFields(snapshot, vals)
         IN  [rc |-> 0,
              snap |-> IF Len(vals) < 8
                       THEN [stored EXCEPT !.steal = 0] ELSE stored]

\* atoi
atoi(buf) ==
    LET p0 == SkipSpace(buf, 1)
        p1 == IF CharAt(buf, p0) \in {"-", "+"} THEN p0 + 1 ELSE p0
        v == ScanDigits(buf, p1, 0, 0).val
    IN  IF CharAt(buf, p0) = "-" THEN -v ELSE v

get_cpu_temperature(file) ==
    IF ~file.open THEN MinusOne
    ELSE LET n == IF Len(file.text) < THERMAL_BUFFER_SIZE - 1
                  THEN Len(file.text) ELSE THERMAL_BUFFER_SIZE - 1
             buffer == SubSeq(file.text, 1, n)
         IN  IF n <= 0 THEN MinusOne ELSE Dbl(atoi(buffer), 1000)

\* fscanf(fp, "%lf", &uptime) stores what strtod reads, and 0.0 stays when
\* no number is there
get_uptime(file) ==
    IF ~file.open THEN Zero ELSE strtod(file.text, 1)

\* one line of /proc/meminfo
MemLine(line, state) ==
    IF MatchAt(line, 1, T_MemTotal)
    THEN LET v == ScanULongs(line, Len(T_MemTotal) + 1, 1, <<>>)
         IN  IF v = <<>> THEN state ELSE [state EXCEPT !.mem_total_kb = v[1]]
    ELSE IF MatchAt(line, 1, T_MemFree)
    THEN LET v == ScanULongs(line, Len(T_MemFree) + 1, 1, <<>>)
         IN  IF v = <<>> THEN state ELSE [state EXCEPT !.mem_free_kb = v[1]]
    ELSE IF MatchAt(line, 1, T_MemAvailable)
    THEN LET v == ScanULongs(line, Len(T_MemAvailable) + 1, 1, <<>>)
         IN  IF v = <<>> THEN state ELSE [state EXCEPT !.mem_available_kb = v[1]]
    ELSE state

RECURSIVE MemLoop(_, _, _)
MemLoop(text, pos, state) ==
    IF pos > Len(text) THEN state
    ELSE LET e == fgetsEnd(text, pos, MEMINFO_LINE_SIZE)
         IN  MemLoop(text, e + 1, MemLine(SubSeq(text, pos, e), state))

\* get_memory_info(&state): the struct afterwards
get_memory_info(state, file) ==
    IF ~file.open THEN state ELSE MemLoop(file.text, 1, state)

(***************************************************************************)
(* sysmon.c: print_json                                                    *)
(***************************************************************************)
J_timestamp ==
    <<"{", "\"", "t", "i", "m", "e", "s", "t", "a", "m", "p", "\"", ":">>
J_uptime_sec ==
    <<",", "\"", "u", "p", "t", "i", "m", "e", "_", "s", "e", "c", "\"",
      ":">>
J_temp_c ==
    <<",", "\"", "c", "p", "u", "\"", ":", "{", "\"", "t", "e", "m", "p",
      "_", "c", "\"", ":">>
J_usage_pct ==
    <<",", "\"", "u", "s", "a", "g", "e", "_", "p", "c", "t", "\"", ":">>
J_total_kb ==
    <<"}", ",", "\"", "m", "e", "m", "o", "r", "y", "\"", ":", "{", "\"",
      "t", "o", "t", "a", "l", "_", "k", "b", "\"", ":">>
J_free_kb ==
    <<",", "\"", "f", "r", "e", "e", "_", "k", "b", "\"", ":">>
J_available_kb ==
    <<",", "\"", "a", "v", "a", "i", "l", "a", "b", "l", "e", "_", "k",
      "b", "\"", ":">>
J_used_pct ==
    <<",", "\"", "u", "s", "e", "d", "_", "p", "c", "t", "\"", ":">>
J_end ==
    <<"}", "}", "\n">>

used_pct(state) ==
    IF state.mem_total_kb > 0
    THEN Dbl((state.mem_total_kb - state.mem_available_kb) * 100,
             state.mem_total_kb)
    ELSE Zero

\* the rounding directions print_json's four %.f conversions can take
TieChoices(state) ==
    [uptime : IF IsTie(state.uptime_sec, 2) THEN BOOLEAN ELSE {FALSE},
     temp : IF IsTie(state.temp_c, 2) THEN BOOLEAN ELSE {FALSE},
     usage : IF IsTie(state.cpu_usage_percent, 1) THEN BOOLEAN ELSE {FALSE},
     used : IF IsTie(used_pct(state), 1) THEN BOOLEAN ELSE {FALSE}]

\* the bytes print_json(&state) writes at time ts
print_json(state, ts, up) ==
    J_timestamp \o FormatUInt(ts.sec) \o <<".">> \o ZeroPad(ts.nsec, 9)
    \o J_uptime_sec \o FormatFixed(state.uptime_sec, 2, up.uptime)
    \o J_temp_c \o FormatFixed(state.temp_c, 2, up.temp)
    \o J_usage_pct \o FormatFixed(state.cpu_usage_percent, 1, up.usage)
    \o J_total_kb \o FormatUInt(state.mem_total_kb)
    \o J_free_kb \o FormatUInt(state.mem_free_kb)
    \o J_available_kb \o FormatUInt(state.mem_available_kb)
    \o J_used_pct \o FormatFixed(used_pct(state), 1, up.used)
    \o J_end

(***************************************************************************)
(* sysmon.c: main                                                          *)
(***************************************************************************)
\* the same with prev_cpu_snap = curr_cpu_snap done on both branches
CpuStep_AlwaysAdvance(prev, curr, file) ==
    LET r == get_cpu_snapshot(curr, file)
    IN  IF r.rc = 0
        THEN [rc |-> r.rc, usage |-> calculate_cpu_usage(prev, r.snap),
              prev |-> r.snap, curr |-> r.snap]
        ELSE [rc |-> r.rc, usage |-> MinusOne, prev |-> r.snap, curr |-> r.snap]

\* "Update CPU Snapshot": the call, the usage of this tick, and the two
\* snapshots afterwards
CpuStep(prev, curr, file) ==
    LET r == get_cpu_snapshot(curr, file)
    IN  IF r.rc = 0
        THEN [rc |-> r.rc, usage |-> calculate_cpu_usage(prev, r.snap),
              prev |-> r.snap, curr |-> r.snap]
        ELSE [rc |-> r.rc, usage |-> MinusOne, prev |-> prev, curr |-> r.snap]

\* clock_gettime(CLOCK_REALTIME, &ts) at kernel time k
Clock(k) == [sec |-> 1700000000 + k, nsec |-> 1]

\* the kernel's counters at time k
Kstat(k) == <<1 + k, 1, 1, 2 + k, 1, 1, 1, 1>>

RECURSIVE JoinFields(_)
JoinFields(vals) ==
    IF vals = <<>> THEN <<>>
    ELSE <<" ">> \o FormatUInt(Head(vals)) \o JoinFields(Tail(vals))

StatLine(header, vals) == header \o <<" ">> \o JoinFields(vals) \o <<"\n">>

\* what /proc/stat can hold at time k: missing, empty, the cpu line with
\* its first m counters, or a line with another header
StatFiles(k) ==
    {NoFile, File(<<>>), File(StatLine(T_intr, Kstat(k)))}
    \cup {File(StatLine(T_cpu, SubSeq(Kstat(k), 1, m))) : m \in {3, 4, 7, 8}}

ThermalFiles == {NoFile, File(FormatUInt(42130) \o <<"\n">>)}

UptimeFiles(k) ==
    {NoFile, File(FormatFixed(Dbl(525 + 100 * k, 100), 2, FALSE) \o T_idle_tail)}

MemText(tok, v) == tok \o <<" ">> \o FormatUInt(v) \o T_kB

MemFiles(k) ==
    LET total == MemText(T_MemTotal, 1000)
        free == MemText(T_MemFree, 300)
        avail == MemText(T_MemAvailable, 400)
    IN  {NoFile, File(total), File(free \o avail),
         File(MemText(T_Buffers, 5) \o avail \o total \o free)}

\* what an uninitialised CpuSnapshot can hold
Garbage == {ZeroSnap, Snap(3, 3, 3, 3, 3, 3, 3, 3)}

\* "Initial snapshot": get_cpu_snapshot(&prev_cpu_snap) or exit
Start ==
    /\ pc = "start"
    /\ LET r == get_cpu_snapshot(prev_cpu_snap, proc_stat)
       IN  /\ cpu_rc' = r.rc
           /\ prev_cpu_snap' = r.snap
           /\ last_good' = IF r.rc = 0 THEN r.snap ELSE last_good
           /\ pc' = IF r.rc # 0 THEN "exit" ELSE "sleep"
    /\ UNCHANGED <<curr_cpu_snap, current_state, out_line, kernelVars,
                   log_exists, log, pending, readerVars, usage>>

\* sleep(1): the kernel's files are what they are one second later
Sleep ==
    /\ pc = "sleep"
    /\ kidx < MaxTicks
    /\ kidx' = kidx + 1
    /\ proc_stat' \in StatFiles(kidx')
    /\ proc_meminfo' \in MemFiles(kidx')
    /\ thermal' \in ThermalFiles
    /\ proc_uptime' \in UptimeFiles(kidx')
    /\ thermal'.open = proc_uptime'.open
    /\ out_line' = <<>>
    /\ pc' = "run"
    /\ UNCHANGED <<prev_cpu_snap, curr_cpu_snap, current_state, cpu_rc,
                   last_good, log_exists, log, pending, readerVars, usage>>

\* the rest of the loop body: the four reads and print_json, which exits
\* when its write fails
Tick ==
    /\ pc = "run"
    /\ LET c == CpuStep(prev_cpu_snap, curr_cpu_snap, proc_stat)
           st == get_memory_info(
                     [current_state EXCEPT
                         !.cpu_usage_percent = c.usage,
                         !.temp_c = get_cpu_temperature(thermal),
                         !.uptime_sec = get_uptime(proc_uptime)],
                     proc_meminfo)
       IN  /\ cpu_rc' = c.rc
           /\ prev_cpu_snap' = c.prev
           /\ curr_cpu_snap' = c.curr
           /\ last_good' = IF c.rc = 0 THEN c.curr ELSE last_good
           /\ current_state' = st
           /\ \E up \in TieChoices(st), wrote \in BOOLEAN :
                /\ out_line' = IF wrote THEN print_json(st, Clock(kidx), up)
                               ELSE out_line
                /\ pc' = IF wrote THEN "sleep" ELSE "exit"
    /\ UNCHANGED <<kernelVars, log_exists, log, pending, readerVars, usage>>

InitSampler ==
    /\ pc = "start"
    /\ prev_cpu_snap \in Garbage
    /\ curr_cpu_snap \in Garbage
    /\ current_state = ZeroState
    /\ cpu_rc = 0
    /\ out_line = <<>>
    /\ last_good = ZeroSnap
    /\ kidx = 0
    /\ proc_stat \in StatFiles(0)
    /\ proc_meminfo = NoFile
    /\ thermal = NoFile
    /\ proc_uptime = NoFile
    /\ usage = NotComputed
    /\ pending = <<>>
    /\ log_exists = FALSE
    /\ log = <<>>
    /\ ReaderInit

NextSampler == Start \/ Sleep \/ Tick

SpecSampler == InitSampler /\ [][NextSampler]_vars

(***************************************************************************)
(* What the claims say about the sampler                                   *)
(***************************************************************************)
\* two doubles are the same number
DblEq(a, b) == a.d > 0 /\ b.d > 0 /\ a.n * b.d = b.n * a.d

\* b is a within half a unit of the p-th decimal
Within(a, b, p) ==
    /\ a.d > 0
    /\ b.d > 0
    /\ 2 * Pow10(p) * Abs(a.n * b.d - b.n * a.d) <= a.d * b.d

K_available_kb == <<"a", "v", "a", "i", "l", "a", "b", "l", "e", "_", "k", "b">>

\* the value a record carries for a key
RecField(line, key) == extract_json_value(line, 1, key)

\* C7: a tick whose get_cpu_snapshot fails emits usage_pct -1.0 and leaves
\* the retained snapshot unchanged; a tick whose read succeeds emits the
\* usage between the retained snapshot and the new one and then retains the
\* new one.  Hence whenever a tick starts, the retained snapshot is the one
\* most recently acquired with success.
C7_RetainedSnapshot ==
    [][/\ pc' \in {"sleep", "run"} => prev_cpu_snap' = last_good'
       /\ pc = "run" =>
            IF cpu_rc' # 0
            THEN /\ prev_cpu_snap' = prev_cpu_snap
                 /\ current_state'.cpu_usage_percent = MinusOne
                 /\ pc' = "sleep" =>
                        DblEq(RecField(out_line', K_usage_pct), MinusOne)
            ELSE /\ prev_cpu_snap' = curr_cpu_snap'
                 /\ current_state'.cpu_usage_percent =
                        calculate_cpu_usage(prev_cpu_snap, curr_cpu_snap')
                 /\ pc' = "sleep" =>
                        Within(current_state'.cpu_usage_percent,
                               RecField(out_line', K_usage_pct), 1)
      ]_vars

\* a failed tick after a successful one: the snapshot of the earlier tick is
\* still retained although the kernel's counters have moved on
C7_Witness ==
    /\ pc = "sleep"
    /\ kidx = 2
    /\ cpu_rc = -1
    /\ prev_cpu_snap = Snap(2, 1, 1, 3, 1, 1, 1, 1)
    /\ DblEq(RecField(out_line, K_usage_pct), MinusOne)

\* the file has a line that begins with the token
MemKeyReadable(file, tok) ==
    /\ file.open
    /\ \E i \in 1..Len(file.text) :
           LineStart(file.text, i) /\ Occurs(file.text, tok, i)

\* C8 (as claimed): the record of a tick carries 0 for every memory field
\* the tick did not read, whatever earlier ticks read.
C8_UnreadMemoryFieldIsZero ==
    (pc = "sleep" /\ kidx >= 1) =>
        /\ ~MemKeyReadable(proc_meminfo, T_MemTotal) =>
               RecField(out_line, K_total_kb).n = 0
        /\ ~MemKeyReadable(proc_meminfo, T_MemFree) =>
               RecField(out_line, K_free_kb).n = 0
        /\ ~MemKeyReadable(proc_meminfo, T_MemAvailable) =>
               RecField(out_line, K_available_kb).n = 0

\* the number of counters on the first line of /proc/stat
CountersOnLine(file) ==
    IF ~file.open \/ file.text = <<>> THEN 0
    ELSE Len(sscanf_cpu(SubSeq(file.text, 1, fgetsEnd(file.text, 1, BUFFER_SIZE))))

\* C9 (as claimed): get_cpu_snapshot fails when /proc/stat cannot be opened,
\* has no first line, or its first line yields fewer than 4 counters; it
\* succeeds with steal = 0 when only steal is missing; it never succeeds
\* with counters that were not parsed from the line.
C9_SnapshotFailsOnShortLine ==
    pc \in {"sleep", "exit"} =>
        /\ CountersOnLine(proc_stat) < 4 => cpu_rc = -1
        /\ CountersOnLine(proc_stat) = 7 =>
               (cpu_rc = 0 /\ prev_cpu_snap.steal = 0)
        /\ cpu_rc = 0 => CountersOnLine(proc_stat) >= 7
        /\ (kidx = 0 /\ cpu_rc # 0) => pc = "exit"

(***************************************************************************)
(* The sampler's records reaching monitor.log byte by byte, and the        *)
(* dashboard server reading the log in between.  A read takes its bytes    *)
(* in one read() call, so it sees the log as it is at one instant; the     *)
(* writer's steps are taken between two requests.                          *)
(***************************************************************************)
NoTies == [uptime |-> FALSE, temp |-> FALSE, usage |-> FALSE, used |-> FALSE]

\* a tick on which every source was readable, and one on which none was
StateA ==
    [temp_c |-> Dbl(42130, 1000), cpu_usage_percent |-> Dbl(200, 3),
     mem_total_kb |-> 1000, mem_available_kb |-> 400, mem_free_kb |-> 300,
     uptime_sec |-> Dbl(525, 100)]
StateB ==
    [temp_c |-> MinusOne, cpu_usage_percent |-> MinusOne,
     mem_total_kb |-> 0, mem_available_kb |-> 0, mem_free_kb |-> 0,
     uptime_sec |-> Zero]

LogStates == {StateA, StateB}

\* a log of n earlier records
RECURSIVE OldLog(_)
OldLog(n) ==
    IF n = 0 THEN <<>>
    ELSE OldLog(n - 1) \o print_json(StateA, Clock(0), NoTies)

\* print_json's write(): the record is on its way to the log
Emit ==
    /\ rd_pc = "idle"
    /\ pending = <<>>
    /\ kidx < MaxNew
    /\ kidx' = kidx + 1
    /\ \E st \in LogStates :
         /\ current_state' = st
         /\ pending' = print_json(st, Clock(kidx'), NoTies)
    /\ UNCHANGED <<log_exists, log, readerVars, pc, prev_cpu_snap,
                   curr_cpu_snap, cpu_rc, out_line, last_good, proc_stat,
                   proc_meminfo, thermal, proc_uptime, usage>>

\* one more byte of the record becomes visible to readers
Flush ==
    /\ rd_pc = "idle"
    /\ pending # <<>>
    /\ log' = Append(log, Head(pending))
    /\ pending' = Tail(pending)
    /\ UNCHANGED <<log_exists, readerVars, samplerVars, kernelVars, usage>>

InitLog ==
    /\ log_exists = TRUE
    /\ log \in {OldLog(n) : n \in 0..MaxOld}
    /\ ReaderInit
    /\ SamplerIdle

NextLog == Emit \/ Flush \/ HandleClient \/ ClientDone

SpecLog == InitLog /\ [][NextLog]_vars

\* C10: once the log holds a complete record, every read returns a record,
\* never NoData, and the line it returns is the newest line of the log whose
\* prefix is visible.
C10_ReadReturnsNewestVisibleRecord ==
    (rd_pc = "done" /\ \E i \in 1..Len(log) : log[i] = "\n") =>
        /\ ret = 0
        /\ response = "dashboard"
        /\ SeekPos(file_size) + last_line = Max(QualLines(log))

\* a read of a log longer than the window while a record is partly visible:
\* the unterminated record is the line returned
C10_Witness ==
    /\ rd_pc = "done"
    /\ file_size > READ_CHUNK_SIZE
    /\ pending # <<>>
    /\ ret = 0
    /\ LineEnd(Window, last_line) = Len(Window) + 1
    /\ \E i \in 1..Len(log) : log[i] = "\n"

(***************************************************************************)
(* Round trip: one record, built from field values of these sets, written  *)
(* by print_json as the last line of a log and read back.                  *)
(***************************************************************************)
RTUptime == {Zero, Dbl(525, 100), Dbl(12345, 1000), Dbl(360000, 100)}
RTTemp == {MinusOne, Dbl(42125, 1000), Dbl(42130, 1000), Dbl(-5500, 1000)}
RTUsage == {MinusOne, Zero, Dbl(200, 3), Dbl(100, 1), Dbl(1225, 100)}
RTTotal == {0, 1000, 100000}
RTFree == {0, 300}
RTAvailable == {0, 400, 1200}

RTStates ==
    [temp_c : RTTemp, cpu_usage_percent : RTUsage, mem_total_kb : RTTotal,
     mem_available_kb : RTAvailable, mem_free_kb : RTFree,
     uptime_sec : RTUptime]

\* print_json(&current_state), its bytes appended to the log
PrintJson ==
    /\ rd_pc = "idle"
    /\ out_line = <<>>
    /\ \E up \in TieChoices(current_state) :
         out_line' = print_json(current_state, Clock(kidx), up)
    /\ log' = log \o out_line'
    /\ UNCHANGED <<log_exists, pending, readerVars, pc, prev_cpu_snap,
                   curr_cpu_snap, current_state, cpu_rc, last_good,
                   kernelVars, usage>>

InitRoundTrip ==
    /\ log_exists = TRUE
    /\ log \in {OldLog(0), OldLog(1), OldLog(MaxOld + 1)}
    /\ ReaderInit
    /\ pc = "exit"
    /\ prev_cpu_snap = ZeroSnap
    /\ curr_cpu_snap = ZeroSnap
    /\ current_state \in RTStates
    /\ cpu_rc = 0
    /\ out_line = <<>>
    /\ last_good = ZeroSnap
    /\ pending = <<>>
    /\ usage = NotComputed
    /\ KernelIdle

NextRoundTrip == PrintJson \/ HandleClient \/ ClientDone

SpecRoundTrip == InitRoundTrip /\ [][NextRoundTrip]_vars

\* C4: a record serialized by print_json as the last line of the log is read
\* back by get_latest_data with uptime and temperature within 2 decimals,
\* the percentages within 1 decimal and the kilobyte counts exact.
C4_RoundTrip ==
    (rd_pc = "done" /\ out_line # <<>>) =>
        /\ ret = 0
        /\ Within(current_state.uptime_sec, data.uptime, 2)
        /\ Within(current_state.temp_c, data.cpu_temp, 2)
        /\ Within(current_state.cpu_usage_percent, data.cpu_usage, 1)
        /\ data.mem_total = current_state.mem_total_kb
        /\ data.mem_free = current_state.mem_free_kb
        /\ Within(used_pct(current_state), data.mem_used_pct, 1)

\* a record with the -1.0 sentinels and a value that does not fit 2 decimals,
\* read back from a log longer than the window
C4_Witness ==
    /\ rd_pc = "done"
    /\ out_line # <<>>
    /\ file_size > READ_CHUNK_SIZE
    /\ current_state.cpu_usage_percent = MinusOne
    /\ current_state.temp_c = MinusOne
    /\ current_state.uptime_sec = Dbl(12345, 1000)
    /\ current_state.mem_total_kb = 100000
    /\ data.mem_total = 100000
    /\ DblEq(data.cpu_usage, MinusOne)

====
